---- MODULE Spec2Model ----
(***************************************************************************)
(* Model of the 79NG fjord tools:                                          *)
(*   - tools/smoothing.py      smooth_2D_array                             *)
(*   - tools/configuration.py  Configuration                               *)
(*   - Create_stratification.py (the script)                               *)
(* Numbers of a field are exact rationals <<num, den>> (den > 0, reduced); *)
(* NaN is <<0, 0>>.  Text is a sequence of one-character strings.          *)
(***************************************************************************)
EXTENDS Integers, Sequences, FiniteSets, TLC

\* ------------------------------------------------------------------------
\* Bounds of the model
\* ------------------------------------------------------------------------
\* largest number of cells of an input field (ni * nj <= MaxCells)
MaxCells == 4
\* largest half-window radius tried
MaxPm == 2
\* largest number of children of the root element of a configuration file
MaxChildren == 2
\* largest number of children of the stratification element
MaxLevels == 3

\* ------------------------------------------------------------------------
\* Numbers
\* ------------------------------------------------------------------------
NaN == <<0, 0>>
\* content of memory that np.empty_like has allocated and nobody has written
Garbage == <<0, -1>>

Abs(x) == IF x < 0 THEN -x ELSE x

RECURSIVE GCD(_, _)
GCD(a, b) == IF b = 0 THEN a ELSE GCD(b, a % b)

Reduce(q) ==
  LET g == GCD(Abs(q[1]), q[2]) IN <<q[1] \div g, q[2] \div g>>

Num(v) == <<v, 1>>
isnan(v) == v = NaN

\* float addition and division; NaN is contagious
Add(p, q) ==
  IF isnan(p) \/ isnan(q) THEN NaN
  ELSE Reduce(<<p[1] * q[2] + q[1] * p[2], p[2] * q[2]>>)

DivByCount(p, n) ==
  IF isnan(p) \/ n = 0 THEN NaN ELSE Reduce(<<p[1], p[2] * n>>)

\* ------------------------------------------------------------------------
\* Arrays: a shape and the cells, indexed by tuples starting at 0
\* ------------------------------------------------------------------------
Indices(shape) ==
  IF Len(shape) = 1 THEN {<<a>> : a \in 0 .. shape[1] - 1}
  ELSE IF Len(shape) = 2 THEN (0 .. shape[1] - 1) \X (0 .. shape[2] - 1)
  ELSE (0 .. shape[1] - 1) \X (0 .. shape[2] - 1) \X (0 .. shape[3] - 1)

NoArray == [shape |-> <<>>, cells |-> [x \in {} |-> NaN]]

\* np.full(shape, v)
full(shape, v) == [shape |-> shape, cells |-> [x \in Indices(shape) |-> v]]

\* np.empty_like(a)
empty_like(a) == full(a.shape, Garbage)

\* Python's slice start:stop on an axis of length n, as the set of indices
SliceBound(x, n) ==
  IF x < 0 THEN (IF x + n < 0 THEN 0 ELSE x + n)
  ELSE (IF x > n THEN n ELSE x)

SliceLo(start, n) == SliceBound(start, n)
SliceLen(start, stop, n) ==
  LET lo == SliceBound(start, n)
      hi == SliceBound(stop, n)
  IN  IF hi > lo THEN hi - lo ELSE 0

\* (mutant) an assignment that clips the source instead of rejecting it
CanBroadcast_clipping(src, dst) == Len(src) = Len(dst)

\* numpy's rule for "target[slice] = source"
CanBroadcast(src, dst) ==
  /\ Len(src) = Len(dst)
  /\ \A d \in 1 .. Len(src) : src[d] = dst[d] \/ src[d] = 1

\* ------------------------------------------------------------------------
\* State
\* ------------------------------------------------------------------------
VARIABLES
  \* smooth_2D_array (tools/smoothing.py)
  pc,            \* position in smooth_2D_array
  data,          \* the caller's array object (argument `data`)
  data_in,       \* the content of `data` when the call was made
  pm_i, pm_j,    \* arguments
  overwrite,     \* keyword argument
  ni, nj,        \* locals of line 31
  fresh,         \* the array object np.empty_like allocates (NoArray before)
  data_smoothed, \* which object the local names: "data", "fresh" or "unbound"
  data_extended, \* local of line 35
  data_masked,   \* local of line 39: [shape, data, mask]
  done,          \* cells (i, j) whose loop body has run
  ret,           \* what the call returned: "pending", "None" or "fresh"
  err,           \* the exception that ended the call, or NoError
  first,         \* the caller's array after an earlier overwrite call (NoArray if none)
  \* Configuration (tools/configuration.py)
  c_pc,          \* "new", "ready", "called" or "raised"
  c_file,        \* the root element of the XML file that is loaded
  self_folder,   \* self.folder
  self_XML_root, \* self.XML_root
  c_call,        \* the last method call: [method, variable_path]
  c_ret,         \* what it returned
  c_err,         \* the exception it raised, or NoError
  \* Create_stratification.py
  s_pc,          \* position in the script
  XML_root,      \* the root element of configuration.xml
  level_k,       \* number of children of fjord/stratification the loop has passed
  stratification,\* the list of [z, S, T]
  z_discrete, S_discrete, T_discrete,
  salt_profile,  \* model/salt_profile.txt: [opened, lines]
  temp_profile,  \* model/temp_profile.txt: [opened, lines]
  s_err          \* the exception that ended the script, or NoError

smoothVars == <<pc, data, data_in, pm_i, pm_j, overwrite, ni, nj, fresh,
                data_smoothed, data_extended, data_masked, done, ret, err, first>>
confVars == <<c_pc, c_file, self_folder, self_XML_root, c_call, c_ret, c_err>>
stratVars == <<s_pc, XML_root, level_k, stratification, z_discrete, S_discrete,
               T_discrete, salt_profile, temp_profile, s_err>>

vars == <<smoothVars, confVars, stratVars>>

NoError == [type |-> "none", msg |-> "", names |-> {}]
\* an exception: its type, its message, and the names the message mentions
Raise(type, msg, names) == [type |-> type, msg |-> msg, names |-> names]

NoMasked == [shape |-> <<>>, data |-> [x \in {} |-> NaN], mask |-> [x \in {} |-> FALSE]]

NoElement == [tag |-> "", text |-> <<>>, hasText |-> FALSE, attrib |-> <<>>, children |-> <<>>]
NoFile == [opened |-> FALSE, lines |-> <<>>]

\* the programs that a specification does not run
SmoothIdle ==
  /\ pc = "idle" /\ data = NoArray /\ data_in = NoArray /\ pm_i = 0 /\ pm_j = 0
  /\ overwrite = FALSE /\ ni = 0 /\ nj = 0 /\ fresh = NoArray
  /\ data_smoothed = "unbound" /\ data_extended = NoArray /\ data_masked = NoMasked
  /\ done = {} /\ ret = "pending" /\ err = NoError /\ first = NoArray

ConfIdle ==
  /\ c_pc = "idle" /\ c_file = NoElement /\ self_folder = <<>>
  /\ self_XML_root = NoElement /\ c_call = <<>> /\ c_ret = <<>> /\ c_err = NoError

StratIdle ==
  /\ s_pc = "idle" /\ XML_root = NoElement /\ level_k = 0 /\ stratification = <<>>
  /\ z_discrete = <<>> /\ S_discrete = <<>> /\ T_discrete = <<>>
  /\ salt_profile = NoFile /\ temp_profile = NoFile /\ s_err = NoError

\* ------------------------------------------------------------------------
\* Inputs
\* ------------------------------------------------------------------------
Values == {NaN, Num(1), Num(3)}

Shapes2D ==
  {s \in (1 .. MaxCells) \X (1 .. MaxCells) : s[1] * s[2] <= MaxCells}

\* the 2 x 2 field [[a, b], [c, d]]
Field2x2(a, b, c, d) ==
  [shape |-> <<2, 2>>,
   cells |-> [x \in Indices(<<2, 2>>) |->
                IF x = <<0, 0>> THEN a ELSE IF x = <<0, 1>> THEN b
                ELSE IF x = <<1, 0>> THEN c ELSE d]]

\* [[1, 2], [3, 4]] and [[1, NaN], [3, 4]]
ExampleFields ==
  {Field2x2(Num(1), Num(2), Num(3), Num(4)), Field2x2(Num(1), NaN, Num(3), Num(4))}

Fields ==
  UNION {{[shape |-> s, cells |-> f] : f \in [Indices(s) -> Values]} : s \in Shapes2D}
    \cup ExampleFields

\* arrays that are not 2-dimensional
OtherArrays == {full(<<2>>, Num(1)), full(<<1, 2, 1>>, Num(3))}

Radii == (0 - 1) .. MaxPm

Init ==
  /\ pc = "line31"
  /\ data \in Fields \cup OtherArrays
  /\ data_in = data
  /\ pm_i \in Radii
  /\ pm_j \in Radii
  /\ overwrite \in BOOLEAN
  /\ ni = 0
  /\ nj = 0
  /\ fresh = NoArray
  /\ data_smoothed = "unbound"
  /\ data_extended = NoArray
  /\ data_masked = NoMasked
  /\ done = {}
  /\ ret = "pending"
  /\ err = NoError
  /\ first = NoArray
  /\ ConfIdle
  /\ StratIdle

\* ------------------------------------------------------------------------
\* smooth_2D_array, statement by statement
\* ------------------------------------------------------------------------
\* line 31: ni, nj = data.shape
Unpack ==
  /\ pc = "line31"
  /\ Len(data.shape) = 2
  /\ ni' = data.shape[1]
  /\ nj' = data.shape[2]
  /\ pc' = "line32"
  /\ UNCHANGED <<data, data_in, pm_i, pm_j, overwrite, fresh, data_smoothed,
                 data_extended, data_masked, done, ret, err>>
  /\ UNCHANGED <<first, confVars, stratVars>>

UnpackError ==
  /\ pc = "line31"
  /\ Len(data.shape) # 2
  /\ err' = Raise("ValueError",
                  IF Len(data.shape) < 2
                  THEN "not enough values to unpack (expected 2, got 1)"
                  ELSE "too many values to unpack (expected 2)", {})
  /\ pc' = "raised"
  /\ UNCHANGED <<data, data_in, pm_i, pm_j, overwrite, ni, nj, fresh,
                 data_smoothed, data_extended, data_masked, done, ret>>
  /\ UNCHANGED <<first, confVars, stratVars>>

\* line 32: data_smoothed = np.empty_like(data) if not overwrite else data
AllocOut ==
  /\ pc = "line32"
  /\ IF overwrite
     THEN /\ data_smoothed' = "data"
          /\ UNCHANGED fresh
     ELSE /\ data_smoothed' = "fresh"
          /\ fresh' = empty_like(data)
  /\ pc' = "line35"
  /\ UNCHANGED <<data, data_in, pm_i, pm_j, overwrite, ni, nj,
                 data_extended, data_masked, done, ret, err>>
  /\ UNCHANGED <<first, confVars, stratVars>>

ExtendedShape == <<ni + 2 * pm_i, nj + 2 * pm_j>>

\* line 35: data_extended = np.full((ni + 2 * pm_i, nj + 2 * pm_j), np.nan)
Full ==
  /\ pc = "line35"
  /\ ExtendedShape[1] >= 0 /\ ExtendedShape[2] >= 0
  /\ data_extended' = full(ExtendedShape, NaN)
  /\ pc' = "line36"
  /\ UNCHANGED <<data, data_in, pm_i, pm_j, overwrite, ni, nj, fresh,
                 data_smoothed, data_masked, done, ret, err>>
  /\ UNCHANGED <<first, confVars, stratVars>>

FullError ==
  /\ pc = "line35"
  /\ ExtendedShape[1] < 0 \/ ExtendedShape[2] < 0
  /\ err' = Raise("ValueError", "negative dimensions are not allowed", {})
  /\ pc' = "raised"
  /\ UNCHANGED <<data, data_in, pm_i, pm_j, overwrite, ni, nj, fresh,
                 data_smoothed, data_extended, data_masked, done, ret>>
  /\ UNCHANGED <<first, confVars, stratVars>>

\* the target of line 36: data_extended[pm_i : ni + pm_i, pm_j : nj + pm_j]
TargetLo == <<SliceLo(pm_i, data_extended.shape[1]),
              SliceLo(pm_j, data_extended.shape[2])>>
TargetShape == <<SliceLen(pm_i, ni + pm_i, data_extended.shape[1]),
                 SliceLen(pm_j, nj + pm_j, data_extended.shape[2])>>

\* line 36: data_extended[pm_i : ni + pm_i, pm_j : nj + pm_j] = data
Fill ==
  /\ pc = "line36"
  /\ CanBroadcast(data.shape, TargetShape)
  /\ data_extended' =
       [data_extended EXCEPT !.cells =
          [x \in Indices(data_extended.shape) |->
             LET a == x[1] - TargetLo[1]
                 b == x[2] - TargetLo[2]
             IN  IF a \in 0 .. TargetShape[1] - 1 /\ b \in 0 .. TargetShape[2] - 1
                 THEN data.cells[<<IF data.shape[1] = 1 THEN 0 ELSE a,
                                   IF data.shape[2] = 1 THEN 0 ELSE b>>]
                 ELSE data_extended.cells[x]]]
  /\ pc' = "line39"
  /\ UNCHANGED <<data, data_in, pm_i, pm_j, overwrite, ni, nj, fresh,
                 data_smoothed, data_masked, done, ret, err>>
  /\ UNCHANGED <<first, confVars, stratVars>>

FillError ==
  /\ pc = "line36"
  /\ ~ CanBroadcast(data.shape, TargetShape)
  /\ err' = Raise("ValueError", "could not broadcast input array", {})
  /\ pc' = "raised"
  /\ UNCHANGED <<data, data_in, pm_i, pm_j, overwrite, ni, nj, fresh,
                 data_smoothed, data_extended, data_masked, done, ret>>
  /\ UNCHANGED <<first, confVars, stratVars>>

\* np.ma.masked_where(np.isnan(a), a): an own copy of the data, and the mask
masked_where_isnan(a) ==
  [shape |-> a.shape,
   data  |-> a.cells,
   mask  |-> [x \in Indices(a.shape) |-> isnan(a.cells[x])]]

\* line 39
Mask ==
  /\ pc = "line39"
  /\ data_masked' = masked_where_isnan(data_extended)
  /\ pc' = "loop"
  /\ UNCHANGED <<data, data_in, pm_i, pm_j, overwrite, ni, nj, fresh,
                 data_smoothed, data_extended, done, ret, err>>
  /\ UNCHANGED <<first, confVars, stratVars>>

RECURSIVE SumCells(_, _)
SumCells(cells, S) ==
  IF S = {} THEN Num(0)
  ELSE LET x == CHOOSE y \in S : TRUE
       IN  Add(cells[x], SumCells(cells, S \ {x}))

\* (mutant) the window one row and one column short
Window_offByOne(m, i, j) ==
  LET lo_i  == SliceLo(i, m.shape[1])
      len_i == SliceLen(i, i + 2 * pm_i, m.shape[1])
      lo_j  == SliceLo(j, m.shape[2])
      len_j == SliceLen(j, j + 2 * pm_j, m.shape[2])
  IN  (lo_i .. lo_i + len_i - 1) \X (lo_j .. lo_j + len_j - 1)

\* (mutant) the window not centred: it starts one row too low
Window_shifted(m, i, j) ==
  LET lo_i  == SliceLo(i + 1, m.shape[1])
      len_i == SliceLen(i + 1, i + 2 * pm_i + 2, m.shape[1])
      lo_j  == SliceLo(j, m.shape[2])
      len_j == SliceLen(j, j + 2 * pm_j + 1, m.shape[2])
  IN  (lo_i .. lo_i + len_i - 1) \X (lo_j .. lo_j + len_j - 1)

\* the indices of m[i : i + 2 * pm_i + 1, j : j + 2 * pm_j + 1]
Window(m, i, j) ==
  LET lo_i  == SliceLo(i, m.shape[1])
      len_i == SliceLen(i, i + 2 * pm_i + 1, m.shape[1])
      lo_j  == SliceLo(j, m.shape[2])
      len_j == SliceLen(j, j + 2 * pm_j + 1, m.shape[2])
  IN  (lo_i .. lo_i + len_i - 1) \X (lo_j .. lo_j + len_j - 1)

\* np.ma.mean over a set of cells of a masked array
ma_mean(m, S) ==
  LET unmasked == {x \in S : ~ m.mask[x]}
  IN  DivByCount(SumCells(m.data, unmasked), Cardinality(unmasked))

\* (mutant) no test of the centre cell: a missing cell gets its neighbours' mean
CellValue_noMaskTest(i, j) == ma_mean(data_masked, Window(data_masked, i, j))

\* (mutant) the masked array shares its values with `data` (no snapshot):
\* the mask is the one of line 39, the values are the ones `data` holds now
CellValue_view(i, j) ==
  IF data_masked.mask[<<i + pm_i, j + pm_j>>]
  THEN NaN
  ELSE LET live == [data_masked EXCEPT !.data =
                      [x \in DOMAIN data_masked.data |->
                         IF <<x[1] - pm_i, x[2] - pm_j>> \in DOMAIN data.cells
                         THEN data.cells[<<x[1] - pm_i, x[2] - pm_j>>]
                         ELSE data_masked.data[x]]]
       IN  ma_mean(live, Window(live, i, j))

\* (mutant) smoothing in place: every window is read from `data` as it is now
CellValue_inPlace(i, j) ==
  IF isnan(data.cells[<<i, j>>])
  THEN NaN
  ELSE LET S == {x \in DOMAIN data.cells :
                   /\ Abs(x[1] - i) <= pm_i /\ Abs(x[2] - j) <= pm_j
                   /\ ~ isnan(data.cells[x])}
       IN  DivByCount(SumCells(data.cells, S), Cardinality(S))

\* lines 42-47: the value the loop body stores for cell (i, j)
CellValue(i, j) ==
  IF data_masked.mask[<<i + pm_i, j + pm_j>>]
  THEN NaN
  ELSE ma_mean(data_masked, Window(data_masked, i, j))

\* (mutant) the result always goes into the caller's array
Store_intoData(i, j, v) ==
  /\ data' = [data EXCEPT !.cells[<<i, j>>] = v]
  /\ UNCHANGED fresh

\* data_smoothed[i, j] = v
Store(i, j, v) ==
  IF data_smoothed = "data"
  THEN /\ data' = [data EXCEPT !.cells[<<i, j>>] = v]
       /\ UNCHANGED fresh
  ELSE /\ fresh' = [fresh EXCEPT !.cells[<<i, j>>] = v]
       /\ UNCHANGED data

Cells == (0 .. ni - 1) \X (0 .. nj - 1)

Before(x, y) == x[1] < y[1] \/ (x[1] = y[1] /\ x[2] < y[2])

\* the cell the loops of lines 40-41 reach next
NextCell == CHOOSE x \in Cells \ done : \A y \in Cells \ done : y = x \/ Before(x, y)

\* lines 40-47: one pass of the loop body
LoopBody ==
  /\ pc = "loop"
  /\ Cells \ done # {}
  /\ LET x == NextCell
     IN  /\ Store(x[1], x[2], CellValue(x[1], x[2]))
         /\ done' = done \cup {x}
  /\ UNCHANGED <<pc, data_in, pm_i, pm_j, overwrite, ni, nj,
                 data_smoothed, data_extended, data_masked, ret, err>>
  /\ UNCHANGED <<first, confVars, stratVars>>

\* line 48: return data_smoothed if not overwrite else None
Return ==
  /\ pc = "loop"
  /\ Cells \ done = {}
  /\ ret' = IF overwrite THEN "None" ELSE data_smoothed
  /\ pc' = "returned"
  /\ UNCHANGED <<data, data_in, pm_i, pm_j, overwrite, ni, nj, fresh,
                 data_smoothed, data_extended, data_masked, done, err>>
  /\ UNCHANGED <<first, confVars, stratVars>>

\* the loop body run on any cell that is left: the loops of lines 40-41 with
\* their order left open
LoopBodyAnyOrder ==
  /\ pc = "loop"
  /\ \E x \in Cells \ done :
       /\ Store(x[1], x[2], CellValue(x[1], x[2]))
       /\ done' = done \cup {x}
  /\ UNCHANGED <<pc, data_in, pm_i, pm_j, overwrite, ni, nj,
                 data_smoothed, data_extended, data_masked, ret, err>>
  /\ UNCHANGED <<first, confVars, stratVars>>

\* the caller, after an overwrite call has returned: it keeps the array the
\* call has filled and calls again, overwrite=False, on an identical copy of
\* the original field
CallAgain ==
  /\ pc = "returned"
  /\ overwrite
  /\ first = NoArray
  /\ first' = data
  /\ data' = data_in
  /\ overwrite' = FALSE
  /\ pc' = "line31"
  /\ ni' = 0 /\ nj' = 0
  /\ fresh' = NoArray
  /\ data_smoothed' = "unbound"
  /\ data_extended' = NoArray
  /\ data_masked' = NoMasked
  /\ done' = {}
  /\ ret' = "pending"
  /\ UNCHANGED <<data_in, pm_i, pm_j, err>>
  /\ UNCHANGED <<confVars, stratVars>>

Next ==
  \/ Unpack
  \/ UnpackError
  \/ AllocOut
  \/ Full
  \/ FullError
  \/ Fill
  \/ FillError
  \/ Mask
  \/ LoopBody
  \/ Return
  \/ CallAgain

Spec == Init /\ [][Next]_vars

\* the calls that reach the loop: a 2-dimensional field and radii >= 0
FieldsAnyOrder == Fields

InitAnyOrder ==
  /\ pc = "line31"
  /\ data \in FieldsAnyOrder
  /\ data_in = data
  /\ pm_i \in 0 .. MaxPm
  /\ pm_j \in 0 .. MaxPm
  /\ overwrite \in BOOLEAN
  /\ ni = 0
  /\ nj = 0
  /\ fresh = NoArray
  /\ data_smoothed = "unbound"
  /\ data_extended = NoArray
  /\ data_masked = NoMasked
  /\ done = {}
  /\ ret = "pending"
  /\ err = NoError
  /\ first = NoArray
  /\ ConfIdle
  /\ StratIdle

NextAnyOrder ==
  \/ Unpack
  \/ AllocOut
  \/ Full
  \/ Fill
  \/ Mask
  \/ LoopBodyAnyOrder
  \/ Return

SpecAnyOrder == InitAnyOrder /\ [][NextAnyOrder]_vars

\* ------------------------------------------------------------------------
\* Text and XML elements
\* ------------------------------------------------------------------------
startswith(t, c) == Len(t) > 0 /\ t[1] = c
endswith(t, c) == Len(t) > 0 /\ t[Len(t)] = c

\* (mutant) the parts glued together with "/", whatever they are
join2_concat(path, b) == path \o <<"/">> \o b

\* one round of the loop of os.path.join (posixpath)
join2(path, b) ==
  IF startswith(b, "/") THEN b
  ELSE IF path = <<>> \/ endswith(path, "/") THEN path \o b
  ELSE path \o <<"/">> \o b

\* os.path.join(a, b, c)
os_path_join(a, b, c) == join2(join2(a, b), c)

model == <<"m", "o", "d", "e", "l">>

\* an XML element; hasText = FALSE is Python's text = None
Element(tag, hasText, text, attrib, children) ==
  [tag |-> tag, hasText |-> hasText, text |-> text, attrib |-> attrib,
   children |-> children]

\* the sequences of at most n elements of S
SeqsUpTo(S, n) == UNION {[1 .. k -> S] : k \in 0 .. n}

RECURSIVE Flatten(_)
Flatten(ss) == IF ss = <<>> THEN <<>> ELSE Head(ss) \o Flatten(Tail(ss))

\* Element.iterfind(path), path given as its tags: the matching elements in
\* document order
RECURSIVE iterfind(_, _)
iterfind(elem, path) ==
  IF path = <<>> THEN <<elem>>
  ELSE Flatten([k \in 1 .. Len(elem.children) |->
                  IF elem.children[k].tag = Head(path)
                  THEN iterfind(elem.children[k], Tail(path))
                  ELSE <<>>])

\* Element.find(path): [found, element]
find(elem, path) ==
  LET all == iterfind(elem, path)
  IN  IF all = <<>> THEN [found |-> FALSE, element |-> NoElement]
      ELSE [found |-> TRUE, element |-> all[1]]

\* ------------------------------------------------------------------------
\* Configuration (tools/configuration.py)
\* ------------------------------------------------------------------------
NoReturn == [returned |-> FALSE, isNone |-> FALSE, str |-> <<>>]
ReturnStr(t) == [returned |-> TRUE, isNone |-> FALSE, str |-> t]
ReturnNone == [returned |-> TRUE, isNone |-> TRUE, str |-> <<>>]

\* the texts an element of a configuration file has
ConfTexts == {<<"b">>, <<"/", "b">>}

ConfLeaves ==
  {Element("file", h, IF h THEN t ELSE <<>>, <<>>, <<>>) : h \in BOOLEAN, t \in ConfTexts}

ConfElements ==
  {Element(tag, h, IF h THEN t ELSE <<>>, <<>>, c) :
     tag \in {"bathymetry", "fjord"}, h \in BOOLEAN, t \in ConfTexts,
     c \in SeqsUpTo(ConfLeaves, 1)}

ConfRoots ==
  {Element(tag, FALSE, <<>>, <<>>, c) :
     tag \in {"scenario", "setup"}, c \in SeqsUpTo(ConfElements, MaxChildren)}

ConfFolders == {<<>>, <<".">>, <<"r", "u", "n", "/">>}

ConfPaths == {<<"bathymetry">>, <<"fjord", "file">>, <<"ice">>}

InitConf ==
  /\ c_pc = "new"
  /\ c_file \in [folder : ConfFolders, root : ConfRoots]
  /\ self_folder = <<>>
  /\ self_XML_root = NoElement
  /\ c_call = [method |-> "__init__", variable_path |-> <<>>]
  /\ c_ret = NoReturn
  /\ c_err = NoError
  /\ SmoothIdle
  /\ StratIdle

\* lines 21-26: __init__ on a file whose root is 'scenario'
ConfigurationInit ==
  /\ c_pc = "new"
  /\ c_file.root.tag = "scenario"
  /\ self_folder' = c_file.folder
  /\ self_XML_root' = c_file.root
  /\ c_pc' = "ready"
  /\ UNCHANGED <<c_file, c_call, c_ret, c_err>>
  /\ UNCHANGED <<smoothVars, stratVars>>

\* lines 21-26: the assertion of line 26 fails
ConfigurationInitFails ==
  /\ c_pc = "new"
  /\ c_file.root.tag # "scenario"
  /\ self_folder' = c_file.folder
  /\ self_XML_root' = c_file.root
  /\ c_err' = Raise("AssertionError", "root-element of XML-file is not 'scenario'.", {})
  /\ c_pc' = "raised"
  /\ UNCHANGED <<c_file, c_call, c_ret>>
  /\ UNCHANGED <<smoothVars, stratVars>>

\* lines 28-31: [ok, element, err]
get_element(variable_path) ==
  LET element == find(self_XML_root, variable_path)
  IN  IF element.found
      THEN [ok |-> TRUE, element |-> element.element, err |-> NoError]
      ELSE [ok |-> FALSE, element |-> NoElement,
            err |-> Raise("AssertionError", "no variable found in path", {variable_path})]

\* lines 33-35: [ok, value, err]
get_text(variable_path) ==
  LET element == get_element(variable_path)
  IN  IF element.ok
      THEN [ok |-> TRUE, err |-> NoError,
            value |-> IF element.element.hasText
                      THEN ReturnStr(element.element.text) ELSE ReturnNone]
      ELSE [ok |-> FALSE, err |-> element.err, value |-> NoReturn]

\* lines 37-39: [ok, value, err]
get_file_path(variable_path) ==
  LET filename == get_text(variable_path)
  IN  IF ~ filename.ok THEN filename
      ELSE IF filename.value.isNone
      THEN [ok |-> FALSE, value |-> NoReturn,
            err |-> Raise("TypeError",
                          "expected str, bytes or os.PathLike object, not NoneType", {})]
      ELSE [ok |-> TRUE, err |-> NoError,
            value |-> ReturnStr(os_path_join(self_folder, model, filename.value.str))]

\* the end of a method call with result r
Finish(method, variable_path, r) ==
  /\ c_call' = [method |-> method, variable_path |-> variable_path]
  /\ c_ret' = r.value
  /\ c_err' = r.err
  /\ c_pc' = IF r.ok THEN "called" ELSE "raised"
  /\ UNCHANGED <<c_file, self_folder, self_XML_root>>
  /\ UNCHANGED <<smoothVars, stratVars>>

\* a call of get_text that returns
GetText ==
  /\ c_pc = "ready"
  /\ \E variable_path \in ConfPaths :
       /\ get_text(variable_path).ok
       /\ Finish("get_text", variable_path, get_text(variable_path))

\* a call of get_text that raises
GetTextRaises ==
  /\ c_pc = "ready"
  /\ \E variable_path \in ConfPaths :
       /\ ~ get_text(variable_path).ok
       /\ Finish("get_text", variable_path, get_text(variable_path))

\* a call of get_file_path that returns
GetFilePath ==
  /\ c_pc = "ready"
  /\ \E variable_path \in ConfPaths :
       /\ get_file_path(variable_path).ok
       /\ Finish("get_file_path", variable_path, get_file_path(variable_path))

\* a call of get_file_path that raises
GetFilePathRaises ==
  /\ c_pc = "ready"
  /\ \E variable_path \in ConfPaths :
       /\ ~ get_file_path(variable_path).ok
       /\ Finish("get_file_path", variable_path, get_file_path(variable_path))

NextConf ==
  \/ ConfigurationInit
  \/ ConfigurationInitFails
  \/ GetText
  \/ GetTextRaises
  \/ GetFilePath
  \/ GetFilePathRaises

SpecConf == InitConf /\ [][NextConf]_vars

\* ------------------------------------------------------------------------
\* Create_stratification.py
\* ------------------------------------------------------------------------
\* Floats are counted in tenths: -105 is -10.5.
Digits == <<"0", "1", "2", "3", "4", "5", "6", "7", "8", "9">>
DigitVal(c) == (CHOOSE d \in 1 .. 10 : Digits[d] = c) - 1

\* int(t) for a text of digits
RECURSIVE ParseNat(_)
ParseNat(t) ==
  IF t = <<>> THEN 0
  ELSE 10 * ParseNat(SubSeq(t, 1, Len(t) - 1)) + DigitVal(t[Len(t)])

\* str(n) for n >= 0
RECURSIVE str_int(_)
str_int(n) ==
  IF n < 10 THEN <<Digits[n + 1]>>
  ELSE str_int(n \div 10) \o <<Digits[(n % 10) + 1]>>

\* float(t) for t = [-]digits[.digit]
float(t) ==
  LET neg  == startswith(t, "-")
      body == IF neg THEN Tail(t) ELSE t
      dots == {k \in 1 .. Len(body) : body[k] = "."}
      dot  == IF dots = {} THEN Len(body) + 1 ELSE CHOOSE k \in dots : TRUE
      whole == ParseNat(SubSeq(body, 1, dot - 1))
      frac == IF dot < Len(body) THEN DigitVal(body[dot + 1]) ELSE 0
      mag  == 10 * whole + frac
  IN  IF neg THEN 0 - mag ELSE mag

\* repr(x) of a float
repr_float(x) ==
  (IF x < 0 THEN <<"-">> ELSE <<>>)
    \o str_int(Abs(x) \div 10) \o <<".">> \o <<Digits[(Abs(x) % 10) + 1]>>

RECURSIVE Spaces(_)
Spaces(n) == IF n <= 0 THEN <<>> ELSE <<" ">> \o Spaces(n - 1)

\* f"{x:width}" of a float: right-aligned, never cut
format_float(x, width) ==
  LET r == repr_float(x) IN Spaces(width - Len(r)) \o r

\* the attribute texts of a level
ZTexts == {<<"0">>, <<"-", "5", ".", "0">>, <<"-", "1", "0">>}
STexts == {<<"3", "4">>, <<"3", "4", ".", "5">>}
TTexts == {<<"-", "1", ".", "5">>, <<"1">>}

LevelElements ==
  {Element("level", FALSE, <<>>, [z |-> a, S |-> b, T |-> c], <<>>) :
     a \in ZTexts, b \in STexts, c \in TTexts}

\* a child of the stratification that is not a level
LayerElement ==
  Element("layer", FALSE, <<>>, [z |-> <<"0">>, S |-> <<"3", "4">>, T |-> <<"1">>], <<>>)

ScenarioWith(tag, fjordChildren) ==
  Element(tag, FALSE, <<>>, <<>>,
          <<Element("fjord", FALSE, <<>>, <<>>, fjordChildren)>>)

StratRoots ==
  {ScenarioWith("scenario", <<Element("stratification", FALSE, <<>>, <<>>, c)>>) :
     c \in SeqsUpTo(LevelElements \cup {LayerElement}, MaxLevels)}
  \cup {ScenarioWith("scenario", <<>>),
        ScenarioWith("setup", <<Element("stratification", FALSE, <<>>, <<>>, <<>>)>>)}

\* the state after line 13
InitStrat ==
  /\ s_pc = "line14"
  /\ XML_root \in StratRoots
  /\ level_k = 0
  /\ stratification = <<>>
  /\ z_discrete = <<>> /\ S_discrete = <<>> /\ T_discrete = <<>>
  /\ salt_profile = NoFile
  /\ temp_profile = NoFile
  /\ s_err = NoError
  /\ SmoothIdle
  /\ ConfIdle

\* line 14: the assertion holds
RootAssert ==
  /\ s_pc = "line14"
  /\ XML_root.tag = "scenario"
  /\ s_pc' = "line20"
  /\ UNCHANGED <<XML_root, level_k, stratification, z_discrete, S_discrete,
                 T_discrete, salt_profile, temp_profile, s_err>>
  /\ UNCHANGED <<smoothVars, confVars>>

\* line 14: the assertion fails
RootAssertFails ==
  /\ s_pc = "line14"
  /\ XML_root.tag # "scenario"
  /\ s_err' = Raise("AssertionError", "root-element of XML-file is not 'scenario'.", {})
  /\ s_pc' = "raised"
  /\ UNCHANGED <<XML_root, level_k, stratification, z_discrete, S_discrete,
                 T_discrete, salt_profile, temp_profile>>
  /\ UNCHANGED <<smoothVars, confVars>>

\* line 21
XML_stratification == find(XML_root, <<"fjord", "stratification">>)

\* lines 20-21
FindStratification ==
  /\ s_pc = "line20"
  /\ stratification' = <<>>
  /\ level_k' = 0
  /\ s_pc' = "line22"
  /\ UNCHANGED <<XML_root, z_discrete, S_discrete, T_discrete, salt_profile,
                 temp_profile, s_err>>
  /\ UNCHANGED <<smoothVars, confVars>>

\* line 22 when find has returned None
IterateNone ==
  /\ s_pc = "line22"
  /\ ~ XML_stratification.found
  /\ s_err' = Raise("TypeError", "'NoneType' object is not iterable", {})
  /\ s_pc' = "raised"
  /\ UNCHANGED <<XML_root, level_k, stratification, z_discrete, S_discrete,
                 T_discrete, salt_profile, temp_profile>>
  /\ UNCHANGED <<smoothVars, confVars>>

\* the child the loop of line 22 is at
level == XML_stratification.element.children[level_k + 1]

\* lines 22-25: a child that is a level
AppendLevel ==
  /\ s_pc = "line22"
  /\ XML_stratification.found
  /\ level_k < Len(XML_stratification.element.children)
  /\ level.tag = "level"
  /\ stratification' = Append(stratification,
       <<float(level.attrib.z), float(level.attrib.S), float(level.attrib.T)>>)
  /\ level_k' = level_k + 1
  /\ UNCHANGED <<s_pc, XML_root, z_discrete, S_discrete, T_discrete,
                 salt_profile, temp_profile, s_err>>
  /\ UNCHANGED <<smoothVars, confVars>>

\* lines 23-24: a child that is no level.  The message of the assertion is
\* f"... not {child.tag!r}", and the script defines no name `child`: building
\* the message raises NameError
LevelAssertFails ==
  /\ s_pc = "line22"
  /\ XML_stratification.found
  /\ level_k < Len(XML_stratification.element.children)
  /\ level.tag # "level"
  /\ s_err' = Raise("NameError", "name 'child' is not defined", {"child"})
  /\ s_pc' = "raised"
  /\ UNCHANGED <<XML_root, level_k, stratification, z_discrete, S_discrete,
                 T_discrete, salt_profile, temp_profile>>
  /\ UNCHANGED <<smoothVars, confVars>>

\* (mutant) sorted without reverse=True
RECURSIVE sort_ascending(_)
sort_ascending(list) ==
  IF list = <<>> THEN <<>>
  ELSE LET x    == list[Len(list)]
           rest == sort_ascending(SubSeq(list, 1, Len(list) - 1))
           n    == Cardinality({k \in 1 .. Len(rest) : rest[k][1] <= x[1]})
       IN  SubSeq(rest, 1, n) \o <<x>> \o SubSeq(rest, n + 1, Len(rest))

\* list.sort(key=lambda level: level[0], reverse=True): descending by the
\* first entry, equal keys in their original order
RECURSIVE sort_descending(_)
sort_descending(list) ==
  IF list = <<>> THEN <<>>
  ELSE LET x    == list[Len(list)]
           rest == sort_descending(SubSeq(list, 1, Len(list) - 1))
           n    == Cardinality({k \in 1 .. Len(rest) : rest[k][1] >= x[1]})
       IN  SubSeq(rest, 1, n) \o <<x>> \o SubSeq(rest, n + 1, Len(rest))

\* line 26, after the last child
Sort ==
  /\ s_pc = "line22"
  /\ XML_stratification.found
  /\ level_k = Len(XML_stratification.element.children)
  /\ stratification' = sort_descending(stratification)
  /\ s_pc' = "line28"
  /\ UNCHANGED <<XML_root, level_k, z_discrete, S_discrete, T_discrete,
                 salt_profile, temp_profile, s_err>>
  /\ UNCHANGED <<smoothVars, confVars>>

\* lines 28-30
Discretize ==
  /\ s_pc = "line28"
  /\ z_discrete' = [k \in 1 .. Len(stratification) |-> stratification[k][1]]
  /\ S_discrete' = [k \in 1 .. Len(stratification) |-> stratification[k][2]]
  /\ T_discrete' = [k \in 1 .. Len(stratification) |-> stratification[k][3]]
  /\ s_pc' = "line35"
  /\ UNCHANGED <<XML_root, level_k, stratification, salt_profile, temp_profile, s_err>>
  /\ UNCHANGED <<smoothVars, confVars>>

\* lines 35-36: open(filename, "w") and the line with the count
OpenSalt ==
  /\ s_pc = "line35"
  /\ salt_profile' = [opened |-> TRUE, lines |-> <<str_int(Len(z_discrete))>>]
  /\ s_pc' = "line37"
  /\ UNCHANGED <<XML_root, level_k, stratification, z_discrete, S_discrete,
                 T_discrete, temp_profile, s_err>>
  /\ UNCHANGED <<smoothVars, confVars>>

\* lines 37-38: one pass of the loop
WriteSaltLine ==
  /\ s_pc = "line37"
  /\ Len(salt_profile.lines) <= Len(z_discrete)
  /\ LET k == Len(salt_profile.lines)
     IN  salt_profile' = [salt_profile EXCEPT !.lines =
           Append(@, format_float(z_discrete[k], 6) \o <<" ">>
                       \o format_float(S_discrete[k], 3))]
  /\ UNCHANGED <<s_pc, XML_root, level_k, stratification, z_discrete, S_discrete,
                 T_discrete, temp_profile, s_err>>
  /\ UNCHANGED <<smoothVars, confVars>>

\* lines 44-45, after the salinity loop has ended (line 39)
OpenTemp ==
  /\ s_pc = "line37"
  /\ Len(salt_profile.lines) > Len(z_discrete)
  /\ temp_profile' = [opened |-> TRUE, lines |-> <<str_int(Len(z_discrete))>>]
  /\ s_pc' = "line46"
  /\ UNCHANGED <<XML_root, level_k, stratification, z_discrete, S_discrete,
                 T_discrete, salt_profile, s_err>>
  /\ UNCHANGED <<smoothVars, confVars>>

\* lines 46-47: one pass of the loop
WriteTempLine ==
  /\ s_pc = "line46"
  /\ Len(temp_profile.lines) <= Len(z_discrete)
  /\ LET k == Len(temp_profile.lines)
     IN  temp_profile' = [temp_profile EXCEPT !.lines =
           Append(@, format_float(z_discrete[k], 6) \o <<" ">>
                       \o format_float(T_discrete[k], 5))]
  /\ UNCHANGED <<s_pc, XML_root, level_k, stratification, z_discrete, S_discrete,
                 T_discrete, salt_profile, s_err>>
  /\ UNCHANGED <<smoothVars, confVars>>

\* line 48: the end of the script
Finish48 ==
  /\ s_pc = "line46"
  /\ Len(temp_profile.lines) > Len(z_discrete)
  /\ s_pc' = "done"
  /\ UNCHANGED <<XML_root, level_k, stratification, z_discrete, S_discrete,
                 T_discrete, salt_profile, temp_profile, s_err>>
  /\ UNCHANGED <<smoothVars, confVars>>

NextStrat ==
  \/ RootAssert
  \/ RootAssertFails
  \/ FindStratification
  \/ IterateNone
  \/ AppendLevel
  \/ LevelAssertFails
  \/ Sort
  \/ Discretize
  \/ OpenSalt
  \/ WriteSaltLine
  \/ OpenTemp
  \/ WriteTempLine
  \/ Finish48

SpecStrat == InitStrat /\ [][NextStrat]_vars

\* ------------------------------------------------------------------------
\* Properties of smooth_2D_array
\* ------------------------------------------------------------------------
\* the array object that receives the result
Out == IF overwrite THEN data ELSE fresh

Valid == Len(data_in.shape) = 2 /\ pm_i >= 0 /\ pm_j >= 0

\* the mean the claims describe: over the non-missing cells of the input
\* within pm_i rows and pm_j columns of (i, j)
Neighbours(i, j) ==
  {x \in Indices(data_in.shape) :
     /\ Abs(x[1] - i) <= pm_i /\ Abs(x[2] - j) <= pm_j
     /\ ~ isnan(data_in.cells[x])}

ExpectedMean(i, j) ==
  DivByCount(SumCells(data_in.cells, Neighbours(i, j)), Cardinality(Neighbours(i, j)))

\* C1: a cell of the output is missing (NaN) if and only if the same cell of
\* the input was missing, in both modes and for every window size
C1_MissingPreserved ==
  \A x \in done : isnan(Out.cells[x]) <=> isnan(data_in.cells[x])

\* a finished call on a field with a missing cell and a lonely non-missing
\* cell, with a window larger than the field
C1_Witness ==
  /\ pc = "returned"
  /\ pm_i >= ni /\ pm_j >= nj
  /\ Cardinality(Cells) >= 3
  /\ \E x \in Cells :
       /\ ~ isnan(data_in.cells[x])
       /\ \A y \in Cells \ {x} : isnan(data_in.cells[y])
       /\ ~ isnan(Out.cells[x])

\* C2: the value written for a non-missing cell is the sum of the
\* non-missing input values within the window, clipped at the field's
\* edges, divided by their number
C2_WindowMean ==
  \A x \in done :
    ~ isnan(data_in.cells[x]) => Out.cells[x] = ExpectedMean(x[1], x[2])

\* the field [[1, NaN], [3, 4]] smoothed with pm_i = pm_j = 1: cell (1, 1)
\* holds 8/3
C2_Witness ==
  /\ pc = "returned"
  /\ pm_i = 1 /\ pm_j = 1
  /\ data_in.shape = <<2, 2>>
  /\ data_in.cells[<<0, 0>>] = Num(1) /\ data_in.cells[<<0, 1>>] = NaN
  /\ data_in.cells[<<1, 0>>] = Num(3) /\ data_in.cells[<<1, 1>>] = Num(4)
  /\ Out.cells[<<1, 1>>] = <<8, 3>>

\* C3: an overwrite call returns None, and the caller's array then holds what
\* a copy-mode call on an identical copy of the original field returns
C3_OverwriteEqualsCopy ==
  /\ (pc = "returned" /\ overwrite) => ret = "None"
  /\ (pc = "returned" /\ first # NoArray) => (ret = "fresh" /\ fresh = first)

\* both calls are finished, and the smoothing has changed at least two cells
C3_Witness ==
  /\ pc = "returned"
  /\ first # NoArray
  /\ Cardinality({x \in Cells : first.cells[x] # data_in.cells[x]}) >= 2

\* C4: in copy mode the caller's field is the same at every step, and the
\* call returns a new array of the input's shape
C4_CopyLeavesInput ==
  ~ overwrite =>
     /\ data = data_in
     /\ pc = "returned" => (ret = "fresh" /\ fresh.shape = data_in.shape)

\* a copy-mode call that has returned a field that differs from the input
C4_Witness ==
  /\ pc = "returned"
  /\ ~ overwrite
  /\ first = NoArray
  /\ \E x \in Cells : fresh.cells[x] # data_in.cells[x]

C6_ErrorNamesParameter ==
  (pc = "raised" /\ ~ Valid) => err.names \cap {"data", "pm_i", "pm_j"} # {}

\* C6 as the code has it: such a call never gets past line 36, never returns
\* and writes no cell; it can only go on to a ValueError
C6_FailsBeforeAnyWrite ==
  ~ Valid =>
     /\ pc \in {"line31", "line32", "line35", "line36", "raised"}
     /\ pc # "raised" => ENABLED Next
     /\ pc = "raised" => err.type = "ValueError"
     /\ ret = "pending"
     /\ done = {}
     /\ data = data_in

\* an overwrite call with a negative pm_i that has failed in line 36
C6_Witness ==
  /\ pc = "raised"
  /\ overwrite
  /\ pm_i < 0 /\ pm_j >= 0
  /\ err.msg = "could not broadcast input array"

\* the input with NaN put around it
PaddedInput ==
  [shape |-> <<data_in.shape[1] + 2 * pm_i, data_in.shape[2] + 2 * pm_j>>,
   cells |-> [x \in (0 .. data_in.shape[1] + 2 * pm_i - 1)
                    \X (0 .. data_in.shape[2] + 2 * pm_j - 1) |->
                IF <<x[1] - pm_i, x[2] - pm_j>> \in Indices(data_in.shape)
                THEN data_in.cells[<<x[1] - pm_i, x[2] - pm_j>>]
                ELSE NaN]]

\* C7: in whatever order the cells are processed, the extended field is
\* complete before the first cell is written and is the same afterwards, and
\* every processed cell holds the value the input alone determines
C7_OrderIndependent ==
  /\ done # {} => pc \in {"loop", "returned"}
  /\ pc \in {"loop", "returned"} =>
       /\ data_extended = PaddedInput
       /\ data_masked.data = PaddedInput.cells
       /\ \A x \in done :
            Out.cells[x] = IF isnan(data_in.cells[x]) THEN NaN
                           ELSE ExpectedMean(x[1], x[2])

\* an overwrite pass that has taken the last cell before the first one and
\* has changed it
C7_Witness ==
  /\ pc = "loop"
  /\ overwrite
  /\ <<0, 0>> \notin done
  /\ <<ni - 1, nj - 1>> \in done
  /\ data.cells[<<ni - 1, nj - 1>>] # data_in.cells[<<ni - 1, nj - 1>>]
  /\ ~ isnan(data_in.cells[<<0, 0>>])


\* ------------------------------------------------------------------------
\* Properties of Configuration
\* ------------------------------------------------------------------------
\* the element that the child numbers pos lead to, if its tags are path
RECURSIVE Reach(_, _, _)
Reach(elem, pos, path) ==
  IF pos = <<>> THEN [found |-> TRUE, element |-> elem]
  ELSE IF /\ Head(pos) \in 1 .. Len(elem.children)
          /\ elem.children[Head(pos)].tag = Head(path)
       THEN Reach(elem.children[Head(pos)], Tail(pos), Tail(path))
       ELSE [found |-> FALSE, element |-> NoElement]

LexLess(p, q) ==
  \E k \in 1 .. Len(p) : p[k] < q[k] /\ \A j \in 1 .. k - 1 : p[j] = q[j]

\* the first element, in document order, at path under root
ElementAtPath(root, path) ==
  LET M == {pos \in [1 .. Len(path) -> 1 .. Len(root.children) + 1] :
              Reach(root, pos, path).found}
  IN  IF M = {} THEN [found |-> FALSE, element |-> NoElement]
      ELSE Reach(root, CHOOSE pos \in M : \A q \in M : q = pos \/ LexLess(pos, q), path)

\* folder/model/text, with the "/" after folder that a path needs
UnderModel(folder, text) ==
  (IF folder = <<>> \/ endswith(folder, "/") THEN folder ELSE folder \o <<"/">>)
    \o model \o <<"/">> \o text

Asked == ElementAtPath(self_XML_root, c_call.variable_path)

\* C8 as claimed: whenever an element exists at the path, get_file_path
\* returns folder/model/<text of the element>
C8_FilePathUnderModel ==
  (c_pc \in {"called", "raised"} /\ c_call.method = "get_file_path" /\ Asked.found) =>
     /\ c_pc = "called"
     /\ c_ret = ReturnStr(UnderModel(self_folder, Asked.element.text))

\* C8 as the code has it: a root that is not 'scenario' fails the
\* construction with an AssertionError; get_text and get_file_path fail with
\* an AssertionError naming the path when no element is there; get_text
\* returns the element's text (None when it has none); get_file_path returns
\* folder/model/<text> for a relative text, the text alone when it starts
\* with "/", and raises TypeError when the element has no text
C8_ConfigurationAccess ==
  /\ c_file.root.tag # "scenario" =>
       /\ c_pc \in {"new", "raised"}
       /\ c_pc = "raised" => c_err.type = "AssertionError"
  /\ (c_pc \in {"called", "raised"} /\ c_call.method # "__init__") =>
       IF ~ Asked.found
       THEN /\ c_pc = "raised"
            /\ c_err.type = "AssertionError"
            /\ c_err.names = {c_call.variable_path}
            /\ c_ret = NoReturn
       ELSE IF c_call.method = "get_text"
       THEN /\ c_pc = "called"
            /\ c_ret = IF Asked.element.hasText
                       THEN ReturnStr(Asked.element.text) ELSE ReturnNone
       ELSE IF ~ Asked.element.hasText
       THEN c_pc = "raised" /\ c_err.type = "TypeError" /\ c_ret = NoReturn
       ELSE IF startswith(Asked.element.text, "/")
       THEN c_pc = "called" /\ c_ret = ReturnStr(Asked.element.text)
       ELSE c_pc = "called"
            /\ c_ret = ReturnStr(UnderModel(self_folder, Asked.element.text))

\* get_file_path("fjord/file") has returned run/model/b, the file of the
\* second fjord element because the first one has none
C8_Witness ==
  /\ c_pc = "called"
  /\ c_call = [method |-> "get_file_path", variable_path |-> <<"fjord", "file">>]
  /\ Len(self_XML_root.children) = 2
  /\ self_XML_root.children[1].tag = "fjord"
  /\ self_XML_root.children[1].children = <<>>
  /\ c_ret = ReturnStr(<<"r", "u", "n", "/", "m", "o", "d", "e", "l", "/", "b">>)


\* ------------------------------------------------------------------------
\* Properties of Create_stratification.py
\* ------------------------------------------------------------------------
\* the words of a line
RECURSIVE split(_)
split(t) ==
  IF t = <<>> THEN <<>>
  ELSE IF Head(t) = " " THEN split(Tail(t))
  ELSE LET n == CHOOSE m \in 1 .. Len(t) :
                  /\ \A k \in 1 .. m : t[k] # " "
                  /\ m = Len(t) \/ t[m + 1] = " "
       IN  <<SubSeq(t, 1, n)>> \o split(SubSeq(t, n + 1, Len(t)))

\* the depth and the value on line k after the count
DepthOn(file, k) == float(split(file.lines[k + 1])[1])
ValueOn(file, k) == float(split(file.lines[k + 1])[2])

InputLevels == XML_stratification.element.children

\* C9: both files start with the number of levels and have that many lines
\* after it; the depths do not increase down the file and are the same in
\* both files; line k of the two files gives the depth, the S and the T of
\* one and the same input level
C9_ProfilesSorted ==
  s_pc = "done" =>
    LET n == Len(InputLevels)
    IN  /\ salt_profile.opened /\ temp_profile.opened
        /\ Len(salt_profile.lines) = n + 1 /\ Len(temp_profile.lines) = n + 1
        /\ ParseNat(salt_profile.lines[1]) = n
        /\ ParseNat(temp_profile.lines[1]) = n
        /\ \A k \in 1 .. n :
             /\ Len(split(salt_profile.lines[k + 1])) = 2
             /\ Len(split(temp_profile.lines[k + 1])) = 2
             /\ DepthOn(salt_profile, k) = DepthOn(temp_profile, k)
        /\ \A k \in 1 .. n - 1 :
             DepthOn(salt_profile, k) >= DepthOn(salt_profile, k + 1)
        /\ \E p \in Permutations(1 .. n) :
             \A k \in 1 .. n :
               /\ DepthOn(salt_profile, k) = float(InputLevels[p[k]].attrib.z)
               /\ ValueOn(salt_profile, k) = float(InputLevels[p[k]].attrib.S)
               /\ ValueOn(temp_profile, k) = float(InputLevels[p[k]].attrib.T)

\* the script has finished on three levels that were not in descending
\* order, two of them at the same depth with different salinities
C9_Witness ==
  /\ s_pc = "done"
  /\ Len(InputLevels) = 3
  /\ float(InputLevels[1].attrib.z) < float(InputLevels[2].attrib.z)
  /\ InputLevels[1].attrib.z = InputLevels[3].attrib.z
  /\ InputLevels[1].attrib.S # InputLevels[3].attrib.S
  /\ DepthOn(salt_profile, 1) > DepthOn(salt_profile, 2)

\* C10: a child of the stratification that is not a 'level' stops the script
\* with the AssertionError that names the child's tag, before a profile file
\* is opened
C10_AssertionNamesTag ==
  (/\ s_pc = "raised"
   /\ XML_root.tag = "scenario"
   /\ XML_stratification.found
   /\ level_k < Len(InputLevels)) =>
     /\ s_err.type = "AssertionError"
     /\ InputLevels[level_k + 1].tag \in s_err.names
     /\ ~ salt_profile.opened
     /\ ~ temp_profile.opened

====
